---- MODULE Spec2Model ----
(***************************************************************************)
(* The funding-rate chart view (FundingChart) and its rate projector       *)
(* (getAllFundingRates).                                                   *)
(*                                                                         *)
(* Numbers.  A funding rate is an integer count of units of 10^-4, so the  *)
(* rate 0.0001 is 1 and 0.876 is 8760.  MustBigNumber(x).times(k) is exact *)
(* decimal arithmetic, so on these values it is integer multiplication;    *)
(* toNumber() returns the double nearest to that decimal, which is the     *)
(* double the decimal literal denotes, so a double is identified with the  *)
(* decimal it prints as.                                                   *)
(*                                                                         *)
(* Optional values.  A value that may be undefined is a sequence of length *)
(* 0 (undefined) or 1 (the value).                                         *)
(***************************************************************************)
EXTENDS Integers, Sequences, FiniteSets

VARIABLES
    data,             \* useSelector(calculateFundingRateHistory, shallowEqual)
    fundingRateView,  \* useState(FundingRateResolution.OneHour)
    tooltipContext,   \* useState<TooltipContextType>()
    rendered,         \* what the last render of FundingChart produced
    lastCall,         \* the last render callback the chart invoked on this render
    threw,            \* an exception propagated out of the component
    lastValueChange,  \* history: the value of the last onValueChange event
    lastReported,     \* history: the last context given to onTooltipContext
    projArg,          \* the argument of a call of getAllFundingRates
    projResult        \* what that call returned

vars == <<data, fundingRateView, tooltipContext, rendered, lastCall, threw,
          lastValueChange, lastReported, projArg, projResult>>

Undefined == <<>>
Some(x) == <<x>>
IsDefined(o) == o # <<>>
Get(o) == o[1]

\* ---------------------------------------------------------------- bounds
MaxLen == 2
MaxProjRate == 50

\* hourly funding rates of the data, in units of 10^-4
Rates == {-2, 0, 1}
\* y ticks the chart asks the formatter for
TickValues == {-2, 0, 1}
ProjInputs == {Undefined} \cup {Some(r) : r \in (-MaxProjRate)..MaxProjRate}

\* ------------------------------------------------------------- constants
FundingRateResolution == {"OneHour", "EightHour", "Annualized"}
FundingDirection == {"ToShort", "ToLong", "None"}

\* ------------------------------------------------------- rate projector
MustBigNumber(amount) == IF IsDefined(amount) THEN Get(amount) ELSE 0

\* mutant: a 360-day year
getAllFundingRates360(oneHourRate) ==
    LET rate == IF IsDefined(oneHourRate) THEN oneHourRate ELSE Some(0)
    IN  [res \in FundingRateResolution |->
            CASE res = "OneHour"    -> Get(rate)
              [] res = "EightHour"  -> MustBigNumber(rate) * 8
              [] res = "Annualized" -> MustBigNumber(rate) * (24 * 360)]

\* mutant: the default parameter is 1
getAllFundingRatesDefaultOne(oneHourRate) ==
    LET rate == IF IsDefined(oneHourRate) THEN oneHourRate ELSE Some(1)
    IN  [res \in FundingRateResolution |->
            CASE res = "OneHour"    -> Get(rate)
              [] res = "EightHour"  -> MustBigNumber(rate) * 8
              [] res = "Annualized" -> MustBigNumber(rate) * (24 * 365)]

\* mutant: plus(8) for times(8)
getAllFundingRatesPlus(oneHourRate) ==
    LET rate == IF IsDefined(oneHourRate) THEN oneHourRate ELSE Some(0)
    IN  [res \in FundingRateResolution |->
            CASE res = "OneHour"    -> Get(rate)
              [] res = "EightHour"  -> MustBigNumber(rate) + 8
              [] res = "Annualized" -> MustBigNumber(rate) * (24 * 365)]

getAllFundingRates(oneHourRate) ==
    LET rate == IF IsDefined(oneHourRate) THEN oneHourRate ELSE Some(0)
    IN  [res \in FundingRateResolution |->
            CASE res = "OneHour"    -> Get(rate)
              [] res = "EightHour"  -> MustBigNumber(rate) * 8
              [] res = "Annualized" -> MustBigNumber(rate) * (24 * 365)]

\* ------------------------------------------------------------ component
FundingChartDatum(t, r, d) == [time |-> t, fundingRate |-> r, direction |-> d]

\* mutant: the first element instead of the last
latestDatumFirst(d) ==
    IF IsDefined(d) /\ Len(Get(d)) > 0 THEN Some(Get(d)[1]) ELSE Undefined

latestDatum(d) ==
    IF IsDefined(d) /\ Len(Get(d)) > 0 THEN Some(Get(d)[Len(Get(d))]) ELSE Undefined

\* mutant: the projector's default stands in for a missing datum
latestFundingRateDefaulted(datum, view) ==
    Some(getAllFundingRates(IF IsDefined(datum) THEN Some(Get(datum).fundingRate)
                            ELSE Undefined)[view])

latestFundingRate(datum, view) ==
    IF IsDefined(datum)
    THEN Some(getAllFundingRates(Some(Get(datum).fundingRate))[view])
    ELSE Undefined

\* mutant: the negation is lost
isShowingWhileOpen(context) == IsDefined(context) /\ Get(context).tooltipOpen

isShowing(context) == ~(IsDefined(context) /\ Get(context).tooltipOpen)

FundingChart(d, view, context) ==
    [latestDatum       |-> latestDatum(d),
     fundingRateView   |-> view,
     latestFundingRate |-> latestFundingRate(latestDatum(d), view),
     isNegative        |-> IF IsDefined(latestFundingRate(latestDatum(d), view))
                           THEN Get(latestFundingRate(latestDatum(d), view)) < 0
                           ELSE FALSE,
     isShowing         |-> isShowing(context)]

\* mutant: the neutral direction has no entry
accentColorNoNeutral(direction) ==
    CASE direction = "ToLong"  -> Some("var(--color-negative)")
      [] direction = "ToShort" -> Some("var(--color-positive)")
      [] OTHER                 -> Undefined

accentColor(direction) ==
    CASE direction = "ToLong"  -> Some("var(--color-negative)")
      [] direction = "ToShort" -> Some("var(--color-positive)")
      [] direction = "None"    -> Some("var(--color-layer-6)")
      [] OTHER                 -> Undefined

\* mutant: the latest datum is preferred to the nearest
tooltipDatumLatestFirst(nearestDatum, latest) ==
    IF IsDefined(latest) THEN latest ELSE
    IF IsDefined(nearestDatum) THEN Some(Get(nearestDatum).datum) ELSE Undefined

tooltipDatum(nearestDatum, latest) ==
    IF IsDefined(nearestDatum) THEN Some(Get(nearestDatum).datum) ELSE latest

shallowEqual(a, b) ==
    \/ a = b
    \/ /\ IsDefined(a) /\ IsDefined(b)
       /\ Len(Get(a)) = Len(Get(b))
       /\ \A i \in 1..Len(Get(a)) : Get(a)[i] = Get(b)[i]

\* the datum nearest to the pointer: none, or an element of the chart's data
NearestDatums ==
    {Undefined} \cup
    (IF IsDefined(data)
     THEN {Some([datum |-> Get(data)[i], index |-> i - 1]) : i \in 1..Len(Get(data))}
     ELSE {})

\* the snapshots the state layer may deliver next: no history, an empty
\* history, or the history with one more hourly sample
Snapshots ==
    {Undefined, Some(<<>>)} \cup
    (IF IsDefined(data) /\ Len(Get(data)) < MaxLen
     THEN {Some(Append(Get(data), FundingChartDatum(Len(Get(data)) + 1, r, d))) :
              r \in Rates, d \in FundingDirection}
     ELSE {})

Call(name, nearest, datum, time, value, color) ==
    Some([callback |-> name, nearestDatum |-> nearest, datum |-> datum,
          time |-> time, value |-> value, accentColor |-> color])

ProjectorIdle == projArg = Undefined /\ projResult = Undefined

Init ==
    /\ data \in {Undefined, Some(<<>>)}
    /\ fundingRateView = "OneHour"
    /\ tooltipContext = Undefined
    /\ rendered = FundingChart(data, fundingRateView, tooltipContext)
    /\ lastCall = Undefined
    /\ threw = FALSE
    /\ lastValueChange = Undefined
    /\ lastReported = Undefined
    /\ ProjectorIdle

useSelector(next) ==
    /\ ~threw
    /\ IF shallowEqual(data, next)
       THEN UNCHANGED <<data, rendered, lastCall>>
       ELSE /\ data' = next
            /\ rendered' = FundingChart(next, fundingRateView, tooltipContext)
            /\ lastCall' = Undefined
    /\ UNCHANGED <<fundingRateView, tooltipContext, threw, lastValueChange,
                   lastReported, projArg, projResult>>

\* mutant: a selection of the entry already left is dropped
setFundingRateViewDropped(value) ==
    /\ ~threw
    /\ fundingRateView' = IF IsDefined(lastValueChange) /\ value = "OneHour"
                          THEN fundingRateView ELSE value
    /\ lastValueChange' = Some(value)
    /\ rendered' = FundingChart(data, fundingRateView', tooltipContext)
    /\ lastCall' = Undefined
    /\ UNCHANGED <<data, tooltipContext, threw, lastReported, projArg, projResult>>

setFundingRateView(value) ==
    /\ ~threw
    /\ fundingRateView' = value
    /\ lastValueChange' = Some(value)
    /\ rendered' = FundingChart(data, value, tooltipContext)
    /\ lastCall' = Undefined
    /\ UNCHANGED <<data, tooltipContext, threw, lastReported, projArg, projResult>>

setTooltipContext(context) ==
    /\ ~threw
    /\ tooltipContext' = Some(context)
    /\ lastReported' = Some(context)
    /\ rendered' = FundingChart(data, fundingRateView, Some(context))
    /\ lastCall' = Undefined
    /\ UNCHANGED <<data, fundingRateView, threw, lastValueChange, projArg, projResult>>

renderXAxisLabel(nearestDatum) ==
    LET datum == tooltipDatum(nearestDatum, rendered.latestDatum)
    IN  /\ ~threw
        /\ IF IsDefined(datum)
           THEN /\ lastCall' = Call("renderXAxisLabel", nearestDatum, datum,
                                    Some(Get(datum).time), Undefined, Undefined)
                /\ UNCHANGED threw
           ELSE /\ threw' = TRUE
                /\ lastCall' = Undefined
        /\ UNCHANGED <<data, fundingRateView, tooltipContext, rendered,
                       lastValueChange, lastReported, projArg, projResult>>

renderYAxisLabel(nearestDatum) ==
    LET datum == tooltipDatum(nearestDatum, rendered.latestDatum)
    IN  /\ ~threw
        /\ IF IsDefined(datum)
           THEN /\ lastCall' =
                     Call("renderYAxisLabel", nearestDatum, datum, Undefined,
                          Some(getAllFundingRates(Some(Get(datum).fundingRate))
                                   [rendered.fundingRateView]),
                          accentColor(Get(datum).direction))
                /\ UNCHANGED threw
           ELSE /\ threw' = TRUE
                /\ lastCall' = Undefined
        /\ UNCHANGED <<data, fundingRateView, tooltipContext, rendered,
                       lastValueChange, lastReported, projArg, projResult>>

renderTooltip(nearestDatum) ==
    /\ ~threw
    /\ lastCall' = Call("renderTooltip", nearestDatum, rendered.latestDatum,
                        Undefined, Undefined, Undefined)
    /\ UNCHANGED <<data, fundingRateView, tooltipContext, rendered, threw,
                   lastValueChange, lastReported, projArg, projResult>>

\* the number handed to toFixed: the projected rate as a percentage
tickFormatY(value) ==
    /\ ~threw
    /\ lastCall' = Call("tickFormatY", Undefined, Undefined, Undefined,
                        Some(getAllFundingRates(Some(value))[rendered.fundingRateView] * 100),
                        Undefined)
    /\ UNCHANGED <<data, fundingRateView, tooltipContext, rendered, threw,
                   lastValueChange, lastReported, projArg, projResult>>

Next ==
    \/ \E next \in Snapshots : useSelector(next)
    \/ \E value \in FundingRateResolution : setFundingRateView(value)
    \/ \E open \in BOOLEAN : setTooltipContext([tooltipOpen |-> open])
    \/ \E nearestDatum \in NearestDatums : renderXAxisLabel(nearestDatum)
    \/ \E nearestDatum \in NearestDatums : renderYAxisLabel(nearestDatum)
    \/ \E nearestDatum \in NearestDatums : renderTooltip(nearestDatum)
    \/ \E value \in TickValues : tickFormatY(value)

Spec == Init /\ [][Next]_vars

\* ------------------------------------------- the projector on its own
ComponentIdle ==
    /\ data = Undefined
    /\ fundingRateView = "OneHour"
    /\ tooltipContext = Undefined
    /\ rendered = FundingChart(data, fundingRateView, tooltipContext)
    /\ lastCall = Undefined
    /\ threw = FALSE
    /\ lastValueChange = Undefined
    /\ lastReported = Undefined

ProjectorInit ==
    /\ ComponentIdle
    /\ projArg \in ProjInputs
    /\ projResult = Undefined

Project ==
    /\ projResult = Undefined
    /\ projResult' = Some(getAllFundingRates(projArg))
    /\ UNCHANGED <<data, fundingRateView, tooltipContext, rendered, lastCall, threw,
                   lastValueChange, lastReported, projArg>>

ProjectorNext == Project

ProjectorSpec == ProjectorInit /\ [][ProjectorNext]_vars

\* ================================================================ claims
\* what the spec's projector gives at a resolution, in the model's units
Multiplier(res) ==
    CASE res = "OneHour" -> 1 [] res = "EightHour" -> 8 [] res = "Annualized" -> 8760

LastOf(d) == IF IsDefined(d) /\ Len(Get(d)) > 0 THEN Some(Get(d)[Len(Get(d))]) ELSE Undefined

ColorOf(direction) ==
    CASE direction = "ToLong"  -> "var(--color-negative)"
      [] direction = "ToShort" -> "var(--color-positive)"
      [] direction = "None"    -> "var(--color-layer-6)"

\* C1: whenever getAllFundingRates(r) has returned for an hourly rate r, the
\* result has exactly the keys OneHour, EightHour, Annualized, with OneHour = r,
\* EightHour = r * 8 and Annualized = r * 24 * 365 = r * 8760, and the call
\* has touched nothing of the component's state.
C1_ProjectorRates ==
    (IsDefined(projResult) /\ IsDefined(projArg)) =>
        LET r == Get(projArg)
            out == Get(projResult)
        IN  /\ DOMAIN out = {"OneHour", "EightHour", "Annualized"}
            /\ out["OneHour"] = r
            /\ out["EightHour"] = r * 8
            /\ out["Annualized"] = r * 24 * 365
            /\ out["Annualized"] = r * 8760
            /\ ComponentIdle

C1_Witness ==
    /\ projArg = Some(-3)
    /\ IsDefined(projResult)
    /\ Get(projResult)["Annualized"] = -26280

\* C2: getAllFundingRates called with no argument returns what
\* getAllFundingRates(0) returns, and both return OneHour = 0, EightHour = 0,
\* Annualized = 0.
C2_ProjectorDefault ==
    (IsDefined(projResult) /\ projArg \in {Undefined, Some(0)}) =>
        Get(projResult) = [res \in {"OneHour", "EightHour", "Annualized"} |-> 0]

C2_Witness == projArg = Undefined /\ IsDefined(projResult)

\* C3: the resolution selector is OneHour until the first onValueChange event,
\* always holds one of OneHour, EightHour, Annualized, and after any events is
\* the value of the last one, whatever data updates and tooltip-context
\* callbacks came in between.
C3_SelectorLastWriteWins ==
    /\ fundingRateView \in {"OneHour", "EightHour", "Annualized"}
    /\ ~IsDefined(lastValueChange) => fundingRateView = "OneHour"
    /\ IsDefined(lastValueChange) => fundingRateView = Get(lastValueChange)

C3_Witness ==
    /\ lastValueChange = Some("OneHour")
    /\ IsDefined(lastReported)
    /\ IsDefined(data) /\ Len(Get(data)) = 2

\* C4: the current-rate overlay is hidden exactly when the last tooltip context
\* reported has tooltipOpen true; it is shown before any context was reported
\* and whenever the last one reported has the tooltip closed.
C4_OverlayFollowsTooltip ==
    /\ ~rendered.isShowing <=> (IsDefined(lastReported) /\ Get(lastReported).tooltipOpen)
    /\ ~IsDefined(lastReported) => rendered.isShowing

C4_Witness ==
    /\ ~rendered.isShowing
    /\ IsDefined(lastValueChange)
    /\ IsDefined(data) /\ Len(Get(data)) > 0

\* C5: a step that takes the resolution from OneHour to EightHour and leaves
\* the data alone multiplies the displayed current rate by exactly 8, and
\* multiplies by 8 the value the Y-axis label shows for each datum.
C5_ToggleTimesEight ==
    [][(/\ fundingRateView = "OneHour"
        /\ fundingRateView' = "EightHour"
        /\ data' = data
        /\ IsDefined(rendered.latestFundingRate))
       => /\ IsDefined(rendered'.latestFundingRate)
          /\ Get(rendered'.latestFundingRate) = 8 * Get(rendered.latestFundingRate)
          /\ \A i \in 1..Len(Get(data)) :
                getAllFundingRates(Some(Get(data)[i].fundingRate))[rendered'.fundingRateView]
                  = 8 * getAllFundingRates(Some(Get(data)[i].fundingRate))
                            [rendered.fundingRateView]]_vars

C5_Witness ==
    /\ lastValueChange = Some("EightHour")
    /\ rendered.latestFundingRate = Some(-16)
    /\ LastOf(data) # Undefined /\ Get(LastOf(data)).fundingRate = -2

\* C6: whenever the data sequence is non-empty, the displayed current rate is
\* the fundingRate of its last element projected at the selected resolution
\* (0.0001 at Annualized displays 0.876).
C6_CurrentRateFresh ==
    IsDefined(LastOf(data)) =>
        /\ rendered.latestFundingRate =
              Some(Get(LastOf(data)).fundingRate * Multiplier(fundingRateView))
        /\ (Get(LastOf(data)).fundingRate = 1 /\ fundingRateView = "Annualized")
              => rendered.latestFundingRate = Some(8760)

C6_Witness ==
    /\ IsDefined(data) /\ Len(Get(data)) = 2
    /\ Get(data)[1].fundingRate = -2
    /\ Get(data)[2].fundingRate = 1
    /\ fundingRateView = "Annualized"
    /\ rendered.latestFundingRate = Some(8760)

\* C7: every FundingDirection has a colour token, no two directions share one,
\* and the colour of a rendered Y-axis label is defined and is the colour of
\* no direction but that of the datum shown.
C7_AccentColorTotalDistinct ==
    /\ \A d \in FundingDirection : IsDefined(accentColor(d))
    /\ \A d1, d2 \in FundingDirection : d1 # d2 => accentColor(d1) # accentColor(d2)
    /\ (IsDefined(lastCall) /\ Get(lastCall).callback = "renderYAxisLabel") =>
          /\ IsDefined(Get(lastCall).accentColor)
          /\ \A d \in FundingDirection :
                accentColor(d) = Get(lastCall).accentColor
                   => d = Get(Get(lastCall).datum).direction

C7_Witness ==
    /\ IsDefined(lastCall)
    /\ Get(lastCall).callback = "renderYAxisLabel"
    /\ Get(Get(lastCall).datum).direction = "None"
    /\ Get(lastCall).accentColor = Some("var(--color-layer-6)")

\* C8: no exception propagates from the component: every render and every
\* render callback completes, with or without a nearest datum and with or
\* without a latest datum.
C8_NoException == ~threw

\* C9: when the data sequence is empty or undefined, no current-rate value is
\* shown, at every resolution and in every tooltip state.
C9_NoDataNoRate ==
    (~IsDefined(data) \/ Get(data) = <<>>) =>
        /\ rendered.latestFundingRate = Undefined
        /\ ~rendered.isNegative

C9_Witness ==
    /\ data = Some(<<>>)
    /\ fundingRateView = "Annualized"
    /\ IsDefined(tooltipContext) /\ Get(tooltipContext).tooltipOpen
    /\ rendered.latestFundingRate = Undefined

\* C10: an X-axis or Y-axis label that was rendered shows the datum nearest to
\* the pointer when there is one and the last element of the data otherwise;
\* the X label shows its time, the Y label its fundingRate projected at the
\* selected resolution, coloured by its direction.
C10_AxisLabelDatum ==
    (IsDefined(lastCall)
        /\ Get(lastCall).callback \in {"renderXAxisLabel", "renderYAxisLabel"}) =>
        LET call == Get(lastCall)
            shown == IF IsDefined(call.nearestDatum)
                     THEN Some(Get(call.nearestDatum).datum)
                     ELSE LastOf(data)
        IN  /\ IsDefined(shown)
            /\ call.datum = shown
            /\ call.callback = "renderXAxisLabel" => call.time = Some(Get(shown).time)
            /\ call.callback = "renderYAxisLabel" =>
                  /\ call.value =
                        Some(Get(shown).fundingRate * Multiplier(fundingRateView))
                  /\ call.accentColor = Some(ColorOf(Get(shown).direction))

C10_Witness ==
    /\ IsDefined(lastCall)
    /\ Get(lastCall).callback = "renderYAxisLabel"
    /\ IsDefined(Get(lastCall).nearestDatum)
    /\ Some(Get(Get(lastCall).nearestDatum).datum) # LastOf(data)
    /\ Get(Get(lastCall).nearestDatum).datum.fundingRate = -2
    /\ fundingRateView = "Annualized"
    /\ Get(lastCall).value = Some(-17520)
====
